---------------------------- MODULE Spec2Model ----------------------------
(***************************************************************************)
(* Lifecycle engine of chessticulate_api: invitations, challenges, games   *)
(* and moves, as driven by concurrent HTTP requests.                       *)
(*                                                                         *)
(* Store semantics used throughout.  Every request owns one session        *)
(* (db.session) whose transaction is committed when the handler returns    *)
(* and rolled back when it raises.  A read statement sees the state        *)
(* committed so far.  The writes of a transaction (flush .. commit) become *)
(* visible together, in commit order; a conditional UPDATE ... WHERE       *)
(* status = PENDING is evaluated against the row as it is when the update  *)
(* takes the row, which is the committed row.  Hence each handler is a     *)
(* sequence of steps: its reads, one per step where another request can    *)
(* commit in between, then one write-and-commit step.  The first read of   *)
(* every request is that of security.get_credentials (Begin).  A move      *)
(* hands its event to redis.publish after crud.do_move has flushed and     *)
(* before db.session commits, so the publish step precedes the commit.     *)
(*                                                                         *)
(* Where the files disagree crud.py is followed: crud.accept_challenge and *)
(* the tests give a Game a challenge_id, which models.Game does not yet    *)
(* declare; routers.game.forfeit hands crud other arguments than           *)
(* crud.forfeit and crud.get_games declare, and forfeit is modelled as the *)
(* router's checks followed by crud.forfeit's update.                      *)
(***************************************************************************)
EXTENDS Integers, Sequences, FiniteSets, TLC

(* ------------------------------ bounds -------------------------------- *)
NumUsers == 3
MaxInvReqs == 3
MaxInvitations == 1
MaxChalReqs == 2
MaxLobbyReqs == 2
MaxCreateReqs == 2
MaxUserReqs == 3
MaxAccountReqs == 2
MaxStreamReqs == 2
MaxSubs == 1
MaxLiveReqs == 1
MaxEvalReqs == 1
MaxPairReqs == 2
MaxChallenges == 2
MaxGameReqs == 2
MaxFen == 2

(* ----------------------------- constants ------------------------------ *)
\* SQL NULL in an integer column (row ids start at 1)
NULL == 0
\* the server_default position of a new game, as an abstract position
StartFen == 0
\* the empty mapping {} behind the server_default states "{}"
EmptyStates == 0

\* the status codes the routers give to the error kinds "not found" and
\* "invalid argument"
NotFound == 404
InvalidArgument == 400

Users == 1..NumUsers
NoResult == "NULL"

PENDING == "PENDING"
ACCEPTED == "ACCEPTED"
DECLINED == "DECLINED"
CANCELLED == "CANCELLED"

\* models.GameResult
GameResult ==
    {"CHECKMATE", "STALEMATE", "INSUFFICIENTMATERIAL", "THREEFOLDREPETITION",
     "FIFTYMOVERULE", "DRAWBYAGREEMENT", "RESIGNATION", "TIMEOUT"}

\* the status tags the move evaluator answers with
EvaluatorStatus ==
    {"MOVEOK", "CHECK", "CHECKMATE", "STALEMATE", "INSUFFICIENTMATERIAL",
     "THREEFOLDREPETITION", "FIFTYMOVERULE"}

\* json.dumps / json.loads of the auxiliary-state mapping
JsonDumps(blob) == <<"json", blob>>
JsonLoads(str) == str[2]

VARIABLES
    users,        \* the users table's email and password columns, by id
    deleted,      \* ids of the users whose row has deleted = true
    invitations,  \* the invitations table, indexed by id
    challenges,   \* the challenge_requests table, indexed by id
    games,        \* the games table, indexed by id
    moves,        \* the moves table, in insertion order
    published,    \* the messages handed to redis.publish, in order
    subs,         \* the update streams: game, position, messages waiting, sent
    reqs          \* the requests: operation, caller, position, response, locals

vars ==
    <<users, deleted, invitations, challenges, games, moves, published, subs,
      reqs>>

Max(a, b) == IF a >= b THEN a ELSE b
Reqs ==
    1..Max(Max(Max(MaxInvReqs, MaxChalReqs), Max(MaxUserReqs, MaxAccountReqs)),
           Max(Max(MaxLobbyReqs, MaxCreateReqs), Max(MaxGameReqs, MaxStreamReqs)))

Subs == 1..MaxSubs

\* an update stream nobody has opened yet
IdleSub ==
    [game_id |-> NULL, pc |-> "idle", subscribed |-> FALSE, since |-> 0,
     queue |-> <<>>, sent |-> <<>>, disconnected |-> FALSE]

IdleReq ==
    [op |-> "none", caller |-> NULL, id |-> NULL, pc |-> "idle",
     resp |-> NULL, loc |-> <<>>]

\* a request slot is taken in order, so that slots are not permuted
CanStart(r, max) ==
    /\ r <= max
    /\ reqs[r].pc = "idle"
    /\ \A q \in 1..(r - 1) : reqs[q].pc # "idle"

\* Begin that does not look at the deleted flag of the caller's row
BeginAnyCaller(r, op, caller, id, arg) ==
    reqs' = [reqs EXCEPT ![r] =
        [op |-> op, caller |-> caller, id |-> id, pc |-> "check",
         resp |-> NULL, loc |-> arg]]

\* a request arrives with the token of caller and security.get_credentials
\* reads the caller's row: 401 when it is marked deleted, else the handler runs
Begin(r, op, caller, id, arg) ==
    reqs' = [reqs EXCEPT ![r] =
        IF caller \in deleted
        THEN [op |-> op, caller |-> caller, id |-> id, pc |-> "done",
              resp |-> 401, loc |-> <<>>]
        ELSE [op |-> op, caller |-> caller, id |-> id, pc |-> "check",
              resp |-> NULL, loc |-> arg]]

\* the handler returns or raises HTTPException(code)
Respond(r, code) ==
    reqs' = [reqs EXCEPT ![r].pc = "done", ![r].resp = code, ![r].loc = <<>>]

RespondWith(r, code, val) ==
    reqs' = [reqs EXCEPT ![r].pc = "done", ![r].resp = code, ![r].loc = val]

Goto(r, pc, val) ==
    reqs' = [reqs EXCEPT ![r].pc = pc, ![r].loc = val]

At(r, op, pc) == reqs[r].op = op /\ reqs[r].pc = pc

(* ------------------------------- users -------------------------------- *)
\* the password column of a deleted user (None)
NoPassword == <<>>

\* crud._hash_password and crud._check_password
HashPassword(pswd) == <<"bcrypt", pswd>>
CheckPassword(pswd, pswd_hash) == pswd_hash = HashPassword(pswd)

\* the rows crud.create_user has inserted for the users, with the rows of the
\* users in del as crud.delete_user leaves them; user u has email u and
\* password u
UserRows(del) ==
    [u \in Users |->
        IF u \in del
        THEN [email |-> NULL, password |-> NoPassword]
        ELSE [email |-> u, password |-> HashPassword(u)]]

\* DELETE /users/self
StartDeleteUser(r, max) ==
    \E caller \in Users :
        /\ CanStart(r, max)
        /\ Begin(r, "delete_user", caller, NULL, <<>>)
        /\ UNCHANGED <<users, deleted, invitations, challenges, games, moves, published, subs>>

\* DeleteUserUpdate that takes the row whatever its deleted flag is
DeleteUserUpdateAny(del, table, id_) ==
    IF id_ \in DOMAIN table
    THEN <<del \cup {id_},
           [table EXCEPT ![id_] = [email |-> NULL, password |-> NoPassword]], 1>>
    ELSE <<del, table, 0>>

\* crud.delete_user: UPDATE users SET password = NULL, email = NULL, deleted =
\* true WHERE id = :id AND deleted = false; the deleted flags and the table
\* after it, and its rowcount
DeleteUserUpdate(del, table, id_) ==
    IF id_ \in DOMAIN table /\ id_ \notin del
    THEN <<del \cup {id_},
           [table EXCEPT ![id_] = [email |-> NULL, password |-> NoPassword]], 1>>
    ELSE <<del, table, 0>>

\* routers.user.delete_user: crud.delete_user, whose result (rowcount == 1)
\* the router does not look at, and the commit
DeleteUser(r) ==
    /\ At(r, "delete_user", "check")
    /\ LET res == DeleteUserUpdate(deleted, users, reqs[r].caller) IN
        /\ deleted' = res[1]
        /\ users' = res[2]
        /\ RespondWith(r, 204, res[3] = 1)
    /\ UNCHANGED <<invitations, challenges, games, moves, published, subs>>

\* POST /login and crud.login: the row of that name with deleted = false is
\* looked up and the submitted password checked against its hash; a token of
\* the user's id, or 401 "invalid credentials".  Names are unique and stand
\* for the ids here; NumUsers + 1 is a name and a password nobody has, and
\* the password submitted is that or the one the name was signed up with
Login(r, max) ==
    \E name \in 1..(NumUsers + 1) : \E submitted_pswd \in {name, NumUsers + 1} :
        /\ CanStart(r, max)
        /\ LET result == {u \in DOMAIN users : u = name /\ u \notin deleted}
               ok == /\ result # {}
                     /\ CheckPassword(submitted_pswd, users[name].password)
           IN  reqs' = [reqs EXCEPT ![r] =
                   [op |-> "login", caller |-> NULL, id |-> name, pc |-> "done",
                    resp |-> IF ok THEN 200 ELSE 401,
                    loc |-> [password |-> submitted_pswd,
                             jwt |-> IF ok THEN name ELSE NULL]]]
        /\ UNCHANGED <<users, deleted, invitations, challenges, games, moves,
                       published, subs>>

(* ------------------------------- games -------------------------------- *)
\* NewGame that gives the first move to the side assigned second
NewGameBlackFirst(players, invitation_id, challenge_id) ==
    [white |-> players[1], black |-> players[2], whomst |-> players[2],
     winner |-> NULL, is_active |-> TRUE, result |-> NoResult,
     fen |-> StartFen, states |-> JsonDumps(EmptyStates),
     invitation_id |-> invitation_id, challenge_id |-> challenge_id]

\* models.Game(white=players[0], black=players[1], whomst=players[0], ...)
NewGame(players, invitation_id, challenge_id) ==
    [white |-> players[1], black |-> players[2], whomst |-> players[1],
     winner |-> NULL, is_active |-> TRUE, result |-> NoResult,
     fen |-> StartFen, states |-> JsonDumps(EmptyStates),
     invitation_id |-> invitation_id, challenge_id |-> challenge_id]

\* random.shuffle(players)
Shuffles(a, b) == {<<a, b>>, <<b, a>>}

(* ----------------------------- invitations ---------------------------- *)
\* POST /invitations
StartCreateInvitation(r, max) ==
    \E caller \in Users, to_id \in 1..(NumUsers + 1) :
        /\ CanStart(r, max)
        /\ Begin(r, "create_invitation", caller, to_id, <<>>)
        /\ UNCHANGED <<users, deleted, invitations, challenges, games, moves, published, subs>>

\* CreateInvitationCheck without the comparison of the caller with the addressee
CreateInvitationCheckSelf(r) ==
    /\ At(r, "create_invitation", "check")
    /\ LET caller == reqs[r].caller
           to_id == reqs[r].id
       IN  IF to_id \notin Users
           THEN RespondWith(r, 400, "addressee does not exist")
           ELSE IF to_id \in deleted
           THEN RespondWith(r, 400, "user has been deleted")
           ELSE Goto(r, "insert", <<>>)
    /\ UNCHANGED <<users, deleted, invitations, challenges, games, moves, published, subs>>

\* CreateInvitationCheck without the look at the addressee's deleted flag
CreateInvitationCheckNoDeleted(r) ==
    /\ At(r, "create_invitation", "check")
    /\ LET caller == reqs[r].caller
           to_id == reqs[r].id
       IN  IF caller = to_id
           THEN RespondWith(r, 400, "cannot invite self")
           ELSE IF to_id \notin Users
           THEN RespondWith(r, 400, "addressee does not exist")
           ELSE Goto(r, "insert", <<>>)
    /\ UNCHANGED <<users, deleted, invitations, challenges, games, moves, published, subs>>

\* routers.invitation.create_invitation up to the call of
\* crud.create_invitation
CreateInvitationCheck(r) ==
    /\ At(r, "create_invitation", "check")
    /\ LET caller == reqs[r].caller
           to_id == reqs[r].id
       IN  IF caller = to_id
           THEN RespondWith(r, 400, "cannot invite self")
           ELSE IF to_id \notin Users
           THEN RespondWith(r, 400, "addressee does not exist")
           ELSE IF to_id \in deleted
           THEN RespondWith(r, 400, "user has been deleted")
           ELSE Goto(r, "insert", <<>>)
    /\ UNCHANGED <<users, deleted, invitations, challenges, games, moves, published, subs>>

\* crud.create_invitation and the commit: the row is inserted with the
\* column default status PENDING (at most MaxInvitations rows are modelled)
CreateInvitation(r) ==
    /\ At(r, "create_invitation", "insert")
    /\ Len(invitations) < MaxInvitations
    /\ invitations' = Append(invitations,
           [from_id |-> reqs[r].caller, to_id |-> reqs[r].id,
            status |-> PENDING])
    /\ RespondWith(r, 201, Len(invitations) + 1)
    /\ UNCHANGED <<users, deleted, challenges, games, moves, published, subs>>

StartInvitationOp(r, max) ==
    \E op \in {"accept_invitation", "decline_invitation", "cancel_invitation"},
       caller \in Users, id \in 1..MaxInvitations :
        /\ CanStart(r, max)
        /\ Begin(r, op, caller, id, <<>>)
        /\ UNCHANGED <<users, deleted, invitations, challenges, games, moves, published, subs>>

\* routers.invitation.accept_invitation up to the call of crud.accept_invitation
AcceptInvitationCheck(r) ==
    /\ At(r, "accept_invitation", "check")
    /\ LET id == reqs[r].id IN
       IF id \notin DOMAIN invitations THEN Respond(r, 404)
       ELSE IF reqs[r].caller # invitations[id].to_id THEN Respond(r, 403)
       ELSE IF invitations[id].from_id \in deleted THEN Respond(r, 404)
       ELSE IF invitations[id].status # PENDING THEN Respond(r, 400)
       ELSE Goto(r, "select", <<>>)
    /\ UNCHANGED <<users, deleted, invitations, challenges, games, moves, published, subs>>

\* crud.accept_invitation: the select of the PENDING row
AcceptInvitationSelect(r) ==
    /\ At(r, "accept_invitation", "select")
    /\ LET id == reqs[r].id IN
       IF id \in DOMAIN invitations /\ invitations[id].status = PENDING
       THEN Goto(r, "flush", invitations[id])
       ELSE Respond(r, 500)
    /\ UNCHANGED <<users, deleted, invitations, challenges, games, moves, published, subs>>

\* AcceptInvitationFlush whose game does not name the invitation
AcceptInvitationFlushNoParent(r) ==
    /\ At(r, "accept_invitation", "flush")
    /\ \E players \in Shuffles(reqs[r].loc.from_id, reqs[r].loc.to_id) :
        /\ invitations' = [invitations EXCEPT ![reqs[r].id].status = ACCEPTED]
        /\ games' = Append(games, NewGame(players, NULL, NULL))
        /\ RespondWith(r, 200, Len(games) + 1)
    /\ UNCHANGED <<users, deleted, challenges, moves, published, subs>>

\* crud.accept_invitation: the row loaded by the select is set to ACCEPTED
\* (an UPDATE by primary key) and the game is inserted; then the commit
AcceptInvitationFlush(r) ==
    /\ At(r, "accept_invitation", "flush")
    /\ \E players \in Shuffles(reqs[r].loc.from_id, reqs[r].loc.to_id) :
        /\ invitations' = [invitations EXCEPT ![reqs[r].id].status = ACCEPTED]
        /\ games' = Append(games, NewGame(players, reqs[r].id, NULL))
        /\ RespondWith(r, 200, Len(games) + 1)
    /\ UNCHANGED <<users, deleted, challenges, moves, published, subs>>

\* routers.invitation.decline_invitation up to the call of crud.decline_invitation
DeclineInvitationCheck(r) ==
    /\ At(r, "decline_invitation", "check")
    /\ LET id == reqs[r].id IN
       IF id \notin DOMAIN invitations THEN Respond(r, 404)
       ELSE IF reqs[r].caller # invitations[id].to_id THEN Respond(r, 403)
       ELSE IF invitations[id].from_id \in deleted THEN Respond(r, 404)
       ELSE IF invitations[id].status # PENDING THEN Respond(r, 400)
       ELSE Goto(r, "update", <<>>)
    /\ UNCHANGED <<users, deleted, invitations, challenges, games, moves, published, subs>>

\* CancelInvitationCheck without the comparison of the caller with from_id
CancelInvitationCheckAnyCaller(r) ==
    /\ At(r, "cancel_invitation", "check")
    /\ LET id == reqs[r].id IN
       IF id \notin DOMAIN invitations THEN Respond(r, 404)
       ELSE IF invitations[id].status # PENDING THEN Respond(r, 400)
       ELSE Goto(r, "update", <<>>)
    /\ UNCHANGED <<users, deleted, invitations, challenges, games, moves, published, subs>>

\* routers.invitation.cancel_invitation up to the call of crud.cancel_invitation
CancelInvitationCheck(r) ==
    /\ At(r, "cancel_invitation", "check")
    /\ LET id == reqs[r].id IN
       IF id \notin DOMAIN invitations THEN Respond(r, 404)
       ELSE IF reqs[r].caller # invitations[id].from_id THEN Respond(r, 403)
       ELSE IF invitations[id].status # PENDING THEN Respond(r, 400)
       ELSE Goto(r, "update", <<>>)
    /\ UNCHANGED <<users, deleted, invitations, challenges, games, moves, published, subs>>

\* UpdatePendingInvitation without the status condition
UpdateInvitationAnyStatus(table, id, to) ==
    IF id \in DOMAIN table
    THEN <<[table EXCEPT ![id].status = to], 1>>
    ELSE <<table, 0>>

\* UPDATE invitations SET status = :to WHERE id = :id AND status = PENDING;
\* the pair is the table after the update and its rowcount
UpdatePendingInvitation(table, id, to) ==
    IF id \in DOMAIN table /\ table[id].status = PENDING
    THEN <<[table EXCEPT ![id].status = to], 1>>
    ELSE <<table, 0>>

\* crud.decline_invitation or crud.cancel_invitation, and the commit
InvitationUpdate(r) ==
    /\ reqs[r].op \in {"decline_invitation", "cancel_invitation"}
    /\ reqs[r].pc = "update"
    /\ LET to == IF reqs[r].op = "decline_invitation" THEN DECLINED ELSE CANCELLED
           res == UpdatePendingInvitation(invitations, reqs[r].id, to)
       IN  /\ invitations' = res[1]
           /\ IF res[2] = 1 THEN Respond(r, 200) ELSE Respond(r, 500)
    /\ UNCHANGED <<users, deleted, challenges, games, moves, published, subs>>

(* ----------------------------- challenges ----------------------------- *)
\* crud.create_challenge: a PENDING row of the requester
NewChallenge(user_id) ==
    [requester_id |-> user_id, status |-> PENDING, fulfilled_by |-> NULL,
     game_id |-> NULL]

\* crud.get_challenges(requester_id=user_id, status=PENDING)
PendingChallengesOf(user_id) ==
    {c \in DOMAIN challenges :
        challenges[c].requester_id = user_id /\ challenges[c].status = PENDING}

StartCreateChallenge(r, max) ==
    \E caller \in Users :
        /\ CanStart(r, max)
        /\ Begin(r, "create_challenge", caller, NULL, <<>>)
        /\ UNCHANGED <<users, deleted, invitations, challenges, games, moves, published, subs>>

\* routers.challenge.create_challenge up to the call of crud.create_challenge:
\* 409 when the query for the caller's PENDING challenges comes back empty
CreateChallengeCheck(r) ==
    /\ At(r, "create_challenge", "check")
    /\ IF PendingChallengesOf(reqs[r].caller) = {}
       THEN Respond(r, 409)
       ELSE Goto(r, "insert", <<>>)
    /\ UNCHANGED <<users, deleted, invitations, challenges, games, moves, published, subs>>

\* crud.create_challenge and the commit (at most MaxChallenges rows are
\* modelled)
CreateChallenge(r) ==
    /\ At(r, "create_challenge", "insert")
    /\ Len(challenges) < MaxChallenges
    /\ challenges' = Append(challenges, NewChallenge(reqs[r].caller))
    /\ RespondWith(r, 201, Len(challenges) + 1)
    /\ UNCHANGED <<users, deleted, invitations, games, moves, published, subs>>

StartChallengeOp(r, max) ==
    \E op \in {"accept_challenge", "cancel_challenge"},
       caller \in Users, id \in 1..MaxChallenges :
        /\ CanStart(r, max)
        /\ Begin(r, op, caller, id, <<>>)
        /\ UNCHANGED <<users, deleted, invitations, challenges, games, moves, published, subs>>

\* AcceptChallengeCheck without the comparison of the caller with requester_id
AcceptChallengeCheckOwn(r) ==
    /\ At(r, "accept_challenge", "check")
    /\ LET id == reqs[r].id IN
       IF ~(id \in DOMAIN challenges /\ challenges[id].status = PENDING)
       THEN Respond(r, 404)
       ELSE IF challenges[id].requester_id \in deleted THEN Respond(r, 404)
       ELSE Goto(r, "select", <<>>)
    /\ UNCHANGED <<users, deleted, invitations, challenges, games, moves, published, subs>>

\* routers.challenge.accept_challenge up to the call of crud.accept_challenge
AcceptChallengeCheck(r) ==
    /\ At(r, "accept_challenge", "check")
    /\ LET id == reqs[r].id IN
       IF ~(id \in DOMAIN challenges /\ challenges[id].status = PENDING)
       THEN Respond(r, 404)
       ELSE IF reqs[r].caller = challenges[id].requester_id THEN Respond(r, 400)
       ELSE IF challenges[id].requester_id \in deleted THEN Respond(r, 404)
       ELSE Goto(r, "select", <<>>)
    /\ UNCHANGED <<users, deleted, invitations, challenges, games, moves, published, subs>>

\* AcceptChallengeSelect that leaves the caller's id in the row it could not have
AcceptChallengeSelectClaims(r) ==
    /\ At(r, "accept_challenge", "select")
    /\ LET id == reqs[r].id IN
       IF id \in DOMAIN challenges /\ challenges[id].status = PENDING
       THEN Goto(r, "flush", challenges[id]) /\ UNCHANGED challenges
       ELSE /\ Respond(r, 404)
            /\ challenges' = [c \in DOMAIN challenges |->
                   IF c = id
                   THEN [challenges[c] EXCEPT !.fulfilled_by = reqs[r].caller]
                   ELSE challenges[c]]
    /\ UNCHANGED <<users, deleted, invitations, games, moves, published, subs>>

\* crud.accept_challenge: the select of the PENDING row
AcceptChallengeSelect(r) ==
    /\ At(r, "accept_challenge", "select")
    /\ LET id == reqs[r].id IN
       IF id \in DOMAIN challenges /\ challenges[id].status = PENDING
       THEN Goto(r, "flush", challenges[id])
       ELSE Respond(r, 404)
    /\ UNCHANGED <<users, deleted, invitations, challenges, games, moves, published, subs>>

\* AcceptChallengeFlush that does not record who accepted
AcceptChallengeFlushNoFulfiller(r) ==
    /\ At(r, "accept_challenge", "flush")
    /\ \E players \in Shuffles(reqs[r].loc.requester_id, reqs[r].caller) :
        /\ challenges' = [challenges EXCEPT
               ![reqs[r].id].status = ACCEPTED,
               ![reqs[r].id].game_id = Len(games) + 1]
        /\ games' = Append(games, NewGame(players, NULL, reqs[r].id))
        /\ RespondWith(r, 202, Len(games) + 1)
    /\ UNCHANGED <<users, deleted, invitations, moves, published, subs>>

\* AcceptChallengeFlush that does not write the game's id back to the row
AcceptChallengeFlushNoGameId(r) ==
    /\ At(r, "accept_challenge", "flush")
    /\ \E players \in Shuffles(reqs[r].loc.requester_id, reqs[r].caller) :
        /\ challenges' = [challenges EXCEPT
               ![reqs[r].id].status = ACCEPTED,
               ![reqs[r].id].fulfilled_by = reqs[r].caller]
        /\ games' = Append(games, NewGame(players, NULL, reqs[r].id))
        /\ RespondWith(r, 202, Len(games) + 1)
    /\ UNCHANGED <<users, deleted, invitations, moves, published, subs>>

\* crud.accept_challenge: the loaded row is set to ACCEPTED with fulfilled_by
\* and game_id (UPDATEs by primary key) and the game is inserted; then the commit
AcceptChallengeFlush(r) ==
    /\ At(r, "accept_challenge", "flush")
    /\ \E players \in Shuffles(reqs[r].loc.requester_id, reqs[r].caller) :
        /\ challenges' = [challenges EXCEPT
               ![reqs[r].id].status = ACCEPTED,
               ![reqs[r].id].fulfilled_by = reqs[r].caller,
               ![reqs[r].id].game_id = Len(games) + 1]
        /\ games' = Append(games, NewGame(players, NULL, reqs[r].id))
        /\ RespondWith(r, 202, Len(games) + 1)
    /\ UNCHANGED <<users, deleted, invitations, moves, published, subs>>

\* routers.challenge.cancel_challenge up to the call of crud.cancel_challenge
CancelChallengeCheck(r) ==
    /\ At(r, "cancel_challenge", "check")
    /\ LET id == reqs[r].id IN
       IF ~(id \in DOMAIN challenges /\ challenges[id].status = PENDING)
       THEN Respond(r, 404)
       ELSE IF reqs[r].caller # challenges[id].requester_id THEN Respond(r, 403)
       ELSE Goto(r, "update", <<>>)
    /\ UNCHANGED <<users, deleted, invitations, challenges, games, moves, published, subs>>

\* UpdatePendingChallenge without the status condition
UpdateChallengeAnyStatus(table, id) ==
    IF id \in DOMAIN table
    THEN <<[table EXCEPT ![id].status = CANCELLED], 1>>
    ELSE <<table, 0>>

\* UPDATE challenge_requests SET status = CANCELLED
\*   WHERE id = :id AND status = PENDING; the table after it and its rowcount
UpdatePendingChallenge(table, id) ==
    IF id \in DOMAIN table /\ table[id].status = PENDING
    THEN <<[table EXCEPT ![id].status = CANCELLED], 1>>
    ELSE <<table, 0>>

\* crud.cancel_challenge and the commit
CancelChallengeUpdate(r) ==
    /\ At(r, "cancel_challenge", "update")
    /\ LET res == UpdatePendingChallenge(challenges, reqs[r].id)
       IN  /\ challenges' = res[1]
           /\ IF res[2] = 1 THEN Respond(r, 200) ELSE Respond(r, 500)
    /\ UNCHANGED <<users, deleted, invitations, games, moves, published, subs>>

(* ------------------------- moves and forfeit -------------------------- *)
MoveTexts == {"e4"}

StartMove(r, max) ==
    \E caller \in Users, id \in 1..(Len(games) + 1), movestr \in MoveTexts :
        /\ CanStart(r, max)
        /\ Begin(r, "move", caller, id, [move |-> movestr])
        /\ UNCHANGED <<users, deleted, invitations, challenges, games, moves, published, subs>>

\* MoveCheck that looks at the turn before it looks at the players
MoveCheckTurnFirst(r) ==
    /\ At(r, "move", "check")
    /\ LET id == reqs[r].id IN
       IF id \notin DOMAIN games THEN Respond(r, 404)
       ELSE IF reqs[r].caller # games[id].whomst
       THEN RespondWith(r, 400, "it is not the turn of user")
       ELSE IF reqs[r].caller \notin {games[id].white, games[id].black}
       THEN Respond(r, 403)
       ELSE Goto(r, "evaluate", [move |-> reqs[r].loc.move, game |-> games[id]])
    /\ UNCHANGED <<users, deleted, invitations, challenges, games, moves, published, subs>>

\* MoveCheck without the comparison of the caller with whomst
MoveCheckNoTurn(r) ==
    /\ At(r, "move", "check")
    /\ LET id == reqs[r].id IN
       IF id \notin DOMAIN games THEN Respond(r, 404)
       ELSE IF reqs[r].caller \notin {games[id].white, games[id].black}
       THEN Respond(r, 403)
       ELSE Goto(r, "evaluate", [move |-> reqs[r].loc.move, game |-> games[id]])
    /\ UNCHANGED <<users, deleted, invitations, challenges, games, moves, published, subs>>

\* routers.game.move: the game is loaded and the caller checked
MoveCheck(r) ==
    /\ At(r, "move", "check")
    /\ LET id == reqs[r].id IN
       IF id \notin DOMAIN games THEN Respond(r, 404)
       ELSE IF reqs[r].caller \notin {games[id].white, games[id].black}
       THEN Respond(r, 403)
       ELSE IF reqs[r].caller # games[id].whomst
       THEN RespondWith(r, 400, "it is not the turn of user")
       ELSE Goto(r, "evaluate", [move |-> reqs[r].loc.move, game |-> games[id]])
    /\ UNCHANGED <<users, deleted, invitations, challenges, games, moves, published, subs>>

\* what workers_service.do_move(fen, move, states) returns on a 200 response
EvaluatorResponses ==
    {[status |-> status, states |-> k, fen |-> k] :
        status \in EvaluatorStatus, k \in 1..MaxFen}

\* NextWhomst that hands the turn back to the player who holds it
NextWhomstNoFlip(game) == game.whomst

\* whomst = game.white if game.whomst == game.black else game.black
NextWhomst(game) ==
    IF game.whomst = game.black THEN game.white ELSE game.black

\* MoveEvaluate that inserts the Move row although the evaluator failed
MoveEvaluatePartial(r) ==
    /\ At(r, "move", "evaluate")
    /\ \/ /\ RespondWith(r, 400, "ClientRequestError")
          /\ UNCHANGED moves
       \/ /\ RespondWith(r, 500, "ServerRequestError")
          /\ moves' = Append(moves,
                 [game_id |-> reqs[r].id, user_id |-> reqs[r].caller,
                  movestr |-> reqs[r].loc.move, fen |-> reqs[r].loc.game.fen])
       \/ /\ RespondWith(r, 500, "Exception")
          /\ UNCHANGED moves
       \/ /\ \E response \in EvaluatorResponses :
               Goto(r, "publish",
                    [move |-> reqs[r].loc.move, game |-> reqs[r].loc.game,
                     response |-> response])
          /\ UNCHANGED moves
    /\ UNCHANGED <<users, deleted, invitations, challenges, games, published, subs>>

\* routers.game.move: the call of the move evaluator.  ClientRequestError is
\* answered 400 and ServerRequestError 500; any other exception (a timeout of
\* the http client, a body that is not JSON, a response without status, states
\* or fen) leaves the handler unhandled and is answered 500
MoveEvaluate(r) ==
    /\ At(r, "move", "evaluate")
    /\ \/ RespondWith(r, 400, "ClientRequestError")
       \/ RespondWith(r, 500, "ServerRequestError")
       \/ RespondWith(r, 500, "Exception")
       \/ \E response \in EvaluatorResponses :
            Goto(r, "publish",
                 [move |-> reqs[r].loc.move, game |-> reqs[r].loc.game,
                  response |-> response])
    /\ UNCHANGED <<users, deleted, invitations, challenges, games, moves, published, subs>>

\* the messages with which the move evaluator rejects a move
ClientRejections ==
    {"invalid move", "move puts player in check", "player is still in check",
     "the game is already over"}

\* a JSON body without a message member
NoMessage == "<no message>"

\* no response at all: client.post raises (timeout, connection refused)
NoReply == [status_code |-> NULL, body |-> [message |-> NoMessage]]

\* what the http call of workers_service.do_move can come back with: a 200
\* with the evaluator's answer, or another status with a JSON body that
\* carries one of the known messages, another message, or none
EvaluatorReplies ==
    {[status_code |-> 200, body |-> response] : response \in EvaluatorResponses}
    \cup {[status_code |-> code, body |-> [message |-> message]] :
              code \in {302, 400, 404, 422, 499, 500, 503},
              message \in ClientRejections \cup {"unknown error", NoMessage}}
    \cup {NoReply}

\* WorkersDoMove for which every 4xx response is a client rejection
WorkersDoMoveAny4xx(reply) ==
    IF reply = NoReply THEN [raised |-> "Exception"]
    ELSE IF reply.status_code = 200
    THEN [raised |-> "", value |-> reply.body]
    ELSE IF 400 <= reply.status_code /\ reply.status_code < 500
    THEN [raised |-> "ClientRequestError"]
    ELSE [raised |-> "ServerRequestError"]

\* workers_service.do_move: what it returns or raises for a reply.
\* response.json()["message"] of a body without message is a KeyError
WorkersDoMove(reply) ==
    IF reply = NoReply THEN [raised |-> "Exception"]
    ELSE IF reply.status_code = 200
    THEN [raised |-> "", value |-> reply.body]
    ELSE IF 400 <= reply.status_code /\ reply.status_code < 500
    THEN IF reply.body.message = NoMessage THEN [raised |-> "Exception"]
         ELSE IF reply.body.message \in ClientRejections
         THEN [raised |-> "ClientRequestError"]
         ELSE [raised |-> "ServerRequestError"]
    ELSE [raised |-> "ServerRequestError"]

\* routers.game.move: ClientRequestError is answered 400, ServerRequestError
\* 500, and an exception nobody catches 500 as well
MoveErrorStatus(raised) ==
    IF raised = "ClientRequestError" THEN 400 ELSE 500

\* workers_service.do_move: await client.post(...) has come back
EvaluatorAnswers(r) ==
    /\ At(r, "move", "evaluate")
    /\ \E reply \in EvaluatorReplies :
           Goto(r, "classify",
                [move |-> reqs[r].loc.move, game |-> reqs[r].loc.game,
                 reply |-> reply])
    /\ UNCHANGED <<users, deleted, invitations, challenges, games, moves,
                   published, subs>>

\* workers_service.do_move after the reply and the try/except of
\* routers.game.move around it: HTTPException(400, detail=str(e)) carries the
\* evaluator's message, HTTPException(500) nothing
MoveClassify(r) ==
    /\ At(r, "move", "classify")
    /\ LET l == reqs[r].loc
           result == WorkersDoMove(l.reply)
       IN  IF result.raised = ""
           THEN Goto(r, "publish",
                     [move |-> l.move, game |-> l.game,
                      response |-> result.value])
           ELSE RespondWith(r, MoveErrorStatus(result.raised),
                            IF result.raised = "ClientRequestError"
                            THEN l.reply.body.message ELSE result.raised)
    /\ UNCHANGED <<users, deleted, invitations, challenges, games, moves,
                   published, subs>>

\* the event of routers.game.move, as json.dumps renders it
MoveEvent(id, move, response, whomst) ==
    JsonDumps([type |-> "move", gameId |-> id, move |-> move,
               fen |-> response.fen, status |-> response.status,
               whomst |-> whomst])

\* what redis does with a message published on the channel of a game: it is
\* queued, in order, on the connection of every pubsub subscribed to it
Deliver(channel, data) ==
    [s \in Subs |->
        IF subs[s].subscribed /\ subs[s].game_id = channel
        THEN [subs[s] EXCEPT !.queue = Append(@, data)]
        ELSE subs[s]]

\* routers.game.move: redis.publish(f"game:{game_id}", json.dumps(event)).
\* crud.do_move has flushed its statements into the open transaction before
\* this call; they take effect at the commit, which follows it (DoMove).  An
\* exception of the redis client leaves the handler, and the transaction is
\* rolled back
MovePublish(r) ==
    /\ At(r, "move", "publish")
    /\ LET l == reqs[r].loc IN
       \/ /\ published' = Append(published,
                  [channel |-> reqs[r].id,
                   data |-> MoveEvent(reqs[r].id, l.move, l.response,
                                      NextWhomst(l.game))])
          /\ subs' = Deliver(reqs[r].id,
                             MoveEvent(reqs[r].id, l.move, l.response,
                                       NextWhomst(l.game)))
          /\ Goto(r, "do_move", l)
       \/ /\ RespondWith(r, 500, "Exception")
          /\ UNCHANGED <<published, subs>>
    /\ UNCHANGED <<users, deleted, invitations, challenges, games, moves>>

\* crud.do_move: result/is_active from the status
MoveIsTerminal(status) == status \in GameResult

\* MoveWinner that names the mover for every terminal status
MoveWinnerAnyResult(status, user_id) ==
    IF MoveIsTerminal(status) THEN user_id ELSE NULL

\* crud.do_move: winner = user_id when the status is within CHECKMATE,
\* RESIGNATION or TIMEOUT (on the result names, containment is equality)
MoveWinner(status, user_id) ==
    IF MoveIsTerminal(status) /\ status \in {"CHECKMATE", "RESIGNATION", "TIMEOUT"}
    THEN user_id
    ELSE NULL

\* NewMove that records the position the game had before the move
NewMoveStaleFen(id, user_id, move, fen) ==
    [game_id |-> id, user_id |-> user_id, movestr |-> move, fen |-> games[id].fen]

\* crud.do_move: the Move row
NewMove(id, user_id, move, fen) ==
    [game_id |-> id, user_id |-> user_id, movestr |-> move, fen |-> fen]

\* UpdateGameForMove that records the result and leaves is_active alone
UpdateGameForMoveStaysActive(game, user_id, whomst, states, fen, status) ==
    [game EXCEPT
        !.states = states,
        !.fen = fen,
        !.result = IF MoveIsTerminal(status) THEN status ELSE NoResult,
        !.winner = MoveWinner(status, user_id),
        !.whomst = whomst]

\* crud.do_move: update(models.Game).where(id_ == id_).values(...)
UpdateGameForMove(game, user_id, whomst, states, fen, status) ==
    [game EXCEPT
        !.states = states,
        !.fen = fen,
        !.is_active = ~MoveIsTerminal(status),
        !.result = IF MoveIsTerminal(status) THEN status ELSE NoResult,
        !.winner = MoveWinner(status, user_id),
        !.whomst = whomst]

\* DoMove whose update also seats the mover as white
DoMoveTakesSeat(r) ==
    /\ At(r, "move", "do_move")
    /\ LET l == reqs[r].loc
           id == reqs[r].id
           response == l.response
       IN  /\ moves' = Append(moves,
                  NewMove(id, reqs[r].caller, l.move, response.fen))
           /\ games' = [games EXCEPT ![id] =
                  [UpdateGameForMove(games[id], reqs[r].caller,
                                     NextWhomst(l.game),
                                     JsonDumps(response.states),
                                     response.fen, response.status)
                   EXCEPT !.white = reqs[r].caller]]
           /\ Respond(r, 200)
    /\ UNCHANGED <<users, deleted, invitations, challenges, published, subs>>

\* routers.game.move: crud.do_move with the flipped whomst and
\* json.dumps(states), taking effect at the commit of db.session
DoMove(r) ==
    /\ At(r, "move", "do_move")
    /\ LET l == reqs[r].loc
           id == reqs[r].id
           response == l.response
       IN  /\ moves' = Append(moves,
                  NewMove(id, reqs[r].caller, l.move, response.fen))
           /\ games' = [games EXCEPT ![id] =
                  UpdateGameForMove(games[id], reqs[r].caller,
                                    NextWhomst(l.game),
                                    JsonDumps(response.states),
                                    response.fen, response.status)]
           /\ Respond(r, 200)
    /\ UNCHANGED <<users, deleted, invitations, challenges, published, subs>>

StartForfeit(r, max) ==
    \E caller \in Users, id \in 1..(Len(games) + 1) :
        /\ CanStart(r, max)
        /\ Begin(r, "forfeit", caller, id, <<>>)
        /\ UNCHANGED <<users, deleted, invitations, challenges, games, moves, published, subs>>

\* ForfeitCheck without the comparison of the caller with white and black
ForfeitCheckAnyCaller(r) ==
    /\ At(r, "forfeit", "check")
    /\ LET id == reqs[r].id IN
       IF id \notin DOMAIN games THEN Respond(r, 404)
       ELSE Goto(r, "forfeit", <<>>)
    /\ UNCHANGED <<users, deleted, invitations, challenges, games, moves, published, subs>>

\* routers.game.forfeit: the game is loaded and the caller checked
ForfeitCheck(r) ==
    /\ At(r, "forfeit", "check")
    /\ LET id == reqs[r].id IN
       IF id \notin DOMAIN games THEN Respond(r, 404)
       ELSE IF reqs[r].caller \notin {games[id].white, games[id].black}
       THEN Respond(r, 403)
       ELSE Goto(r, "forfeit", <<>>)
    /\ UNCHANGED <<users, deleted, invitations, challenges, games, moves, published, subs>>

\* ForfeitWinner that names the player who gives up
ForfeitWinnerSelf(game, user_id) == user_id

\* crud.forfeit: winner = game.white if user_id == game.black else game.black
ForfeitWinner(game, user_id) ==
    IF user_id = game.black THEN game.white ELSE game.black

\* Forfeit that also deletes the Move rows of the game given up
ForfeitDropsMoves(r) ==
    /\ At(r, "forfeit", "forfeit")
    /\ games' = [games EXCEPT
           ![reqs[r].id].winner = ForfeitWinner(games[reqs[r].id], reqs[r].caller),
           ![reqs[r].id].result = "RESIGNATION",
           ![reqs[r].id].is_active = FALSE]
    /\ moves' = SelectSeq(moves, LAMBDA m : m.game_id # reqs[r].id)
    /\ Respond(r, 200)
    /\ UNCHANGED <<users, deleted, invitations, challenges, published, subs>>

\* crud.forfeit and the commit
Forfeit(r) ==
    /\ At(r, "forfeit", "forfeit")
    /\ games' = [games EXCEPT
           ![reqs[r].id].winner = ForfeitWinner(games[reqs[r].id], reqs[r].caller),
           ![reqs[r].id].result = "RESIGNATION",
           ![reqs[r].id].is_active = FALSE]
    /\ Respond(r, 200)
    /\ UNCHANGED <<users, deleted, invitations, challenges, moves, published, subs>>

(* --------------------------- update streams --------------------------- *)
\* GET /games/{game_id}/update by a user who is not marked deleted:
\* pubsub.subscribe(f"game:{game_id}") and the StreamingResponse is returned;
\* the game id is not looked up.  since remembers how many messages had been
\* published when the subscription began
GameUpdate(s) ==
    \E caller \in Users \ deleted, game_id \in 1..(Len(games) + 1) :
        /\ subs[s].pc = "idle"
        /\ \A q \in 1..(s - 1) : subs[q].pc # "idle"
        /\ subs' = [subs EXCEPT ![s] =
               [game_id |-> game_id, pc |-> "connected", subscribed |-> TRUE,
                since |-> Len(published), queue |-> <<>>, sent |-> <<>>,
                disconnected |-> FALSE]]
        /\ UNCHANGED <<users, deleted, invitations, challenges, games, moves,
                       published, reqs>>

\* the data of the messages published on the channel of the stream s since it
\* subscribed, in the order of publication
PublishedSince(s) ==
    LET later == SubSeq(published, subs[s].since + 1, Len(published))
        own == SelectSeq(later, LAMBDA m : m.channel = subs[s].game_id)
    IN [k \in 1..Len(own) |-> own[k].data]

\* event_stream: yield ": connected"
StreamConnected(s) ==
    /\ subs[s].pc = "connected"
    /\ subs' = [subs EXCEPT ![s].pc = "get_message"]
    /\ UNCHANGED <<users, deleted, invitations, challenges, games, moves,
                   published, reqs>>

\* StreamGetMessage that leaves the message it has sent waiting
StreamGetMessageAgain(s) ==
    /\ subs[s].pc = "get_message"
    /\ \/ /\ subs[s].queue # <<>>
          /\ subs' = [subs EXCEPT ![s].sent = Append(@, Head(subs[s].queue)),
                                  ![s].pc = "is_disconnected"]
       \/ subs' = [subs EXCEPT ![s].pc = "is_disconnected"]
    /\ UNCHANGED <<users, deleted, invitations, challenges, games, moves,
                   published, reqs>>

\* event_stream: pubsub.get_message(timeout=1.0) hands over the message that
\* waits longest and it is sent as "data: ..."; when none came within the
\* second, ": ping" is sent (pings are not recorded)
StreamGetMessage(s) ==
    /\ subs[s].pc = "get_message"
    /\ \/ /\ subs[s].queue # <<>>
          /\ subs' = [subs EXCEPT ![s].sent = Append(@, Head(subs[s].queue)),
                                  ![s].queue = Tail(@),
                                  ![s].pc = "is_disconnected"]
       \/ subs' = [subs EXCEPT ![s].pc = "is_disconnected"]
    /\ UNCHANGED <<users, deleted, invitations, challenges, games, moves,
                   published, reqs>>

\* the client of the stream goes away
ClientDisconnect(s) ==
    /\ subs[s].pc \in {"connected", "get_message", "is_disconnected"}
    /\ ~subs[s].disconnected
    /\ subs' = [subs EXCEPT ![s].disconnected = TRUE]
    /\ UNCHANGED <<users, deleted, invitations, challenges, games, moves,
                   published, reqs>>

\* event_stream is given up by the server at its first yield, which stands
\* before the try, because the client is gone: the finally that unsubscribes
\* does not run.  (Given up at a yield of the loop, the finally runs as after
\* the break of StreamIsDisconnected.)
StreamAbandon(s) ==
    /\ subs[s].pc = "connected"
    /\ subs[s].disconnected
    /\ subs' = [subs EXCEPT ![s].pc = "abandoned"]
    /\ UNCHANGED <<users, deleted, invitations, challenges, games, moves,
                   published, reqs>>

\* event_stream: if await request.is_disconnected(): break
StreamIsDisconnected(s) ==
    /\ subs[s].pc = "is_disconnected"
    /\ subs' = [subs EXCEPT ![s].pc =
           IF subs[s].disconnected THEN "unsubscribe" ELSE "get_message"]
    /\ UNCHANGED <<users, deleted, invitations, challenges, games, moves,
                   published, reqs>>

\* event_stream, finally: pubsub.unsubscribe(channel)
StreamUnsubscribe(s) ==
    /\ subs[s].pc = "unsubscribe"
    /\ subs' = [subs EXCEPT ![s].subscribed = FALSE, ![s].pc = "close"]
    /\ UNCHANGED <<users, deleted, invitations, challenges, games, moves,
                   published, reqs>>

\* event_stream, finally: pubsub.close(), which drops what still waits
StreamClose(s) ==
    /\ subs[s].pc = "close"
    /\ subs' = [subs EXCEPT ![s].queue = <<>>, ![s].pc = "closed"]
    /\ UNCHANGED <<users, deleted, invitations, challenges, games, moves,
                   published, reqs>>

(* --------------------------- specifications --------------------------- *)
EmptyStore ==
    /\ deleted = {}
    /\ users = UserRows({})
    /\ invitations = <<>>
    /\ challenges = <<>>
    /\ games = <<>>
    /\ moves = <<>>
    /\ published = <<>>
    /\ subs = [s \in Subs |-> IdleSub]
    /\ reqs = [r \in Reqs |-> IdleReq]

InitInv == EmptyStore

NextInv ==
    \E r \in 1..MaxInvReqs :
        \/ StartCreateInvitation(r, MaxInvReqs)
        \/ CreateInvitationCheck(r)
        \/ CreateInvitation(r)
        \/ StartInvitationOp(r, MaxInvReqs)
        \/ AcceptInvitationCheck(r)
        \/ AcceptInvitationSelect(r)
        \/ AcceptInvitationFlush(r)
        \/ DeclineInvitationCheck(r)
        \/ CancelInvitationCheck(r)
        \/ InvitationUpdate(r)
        \/ StartDeleteUser(r, MaxInvReqs)
        \/ DeleteUser(r)

\* the invitation lifecycle under concurrent requests, with users deleting
\* their accounts
SpecInv == InitInv /\ [][NextInv]_vars

\* a store without invitations in which the last user may have deleted the
\* account, as crud.delete_user leaves it
InitCreate ==
    /\ deleted \in {{}, {NumUsers}}
    /\ users = UserRows(deleted)
    /\ invitations = <<>>
    /\ challenges = <<>>
    /\ games = <<>>
    /\ moves = <<>>
    /\ published = <<>>
    /\ subs = [s \in Subs |-> IdleSub]
    /\ reqs = [r \in Reqs |-> IdleReq]

NextCreate ==
    \E r \in 1..MaxCreateReqs :
        \/ StartCreateInvitation(r, MaxCreateReqs)
        \/ CreateInvitationCheck(r)
        \/ CreateInvitation(r)
        \/ StartDeleteUser(r, MaxCreateReqs)
        \/ DeleteUser(r)

\* invitations being sent while users delete their accounts
SpecCreate == InitCreate /\ [][NextCreate]_vars

NextUsers ==
    \E r \in 1..MaxUserReqs :
        \/ StartDeleteUser(r, MaxUserReqs)
        \/ DeleteUser(r)
        \/ Login(r, MaxUserReqs)

\* users deleting their accounts and logging in
SpecUsers == EmptyStore /\ [][NextUsers]_vars

\* a store holding one PENDING challenge, as crud.create_challenge inserts it
InitChal ==
    /\ deleted = {}
    /\ users = UserRows({})
    /\ invitations = <<>>
    /\ challenges \in {<<NewChallenge(u)>> : u \in Users}
    /\ games = <<>>
    /\ moves = <<>>
    /\ published = <<>>
    /\ subs = [s \in Subs |-> IdleSub]
    /\ reqs = [r \in Reqs |-> IdleReq]

NextChal ==
    \E r \in 1..MaxChalReqs :
        \/ StartCreateChallenge(r, MaxChalReqs)
        \/ CreateChallengeCheck(r)
        \/ CreateChallenge(r)
        \/ StartChallengeOp(r, MaxChalReqs)
        \/ AcceptChallengeCheck(r)
        \/ AcceptChallengeSelect(r)
        \/ AcceptChallengeFlush(r)
        \/ CancelChallengeCheck(r)
        \/ CancelChallengeUpdate(r)

\* the challenge lifecycle under concurrent requests
SpecChal == InitChal /\ [][NextChal]_vars

\* a store holding two games in their starting position: game 1 of the
\* accepted invitation from user 1 to user 2, game 2 of the challenge of
\* user 3 accepted by user 2
InitGame ==
    /\ deleted = {}
    /\ users = UserRows({})
    /\ invitations = <<[from_id |-> 1, to_id |-> 2, status |-> ACCEPTED]>>
    /\ challenges = <<[requester_id |-> 3, status |-> ACCEPTED,
                       fulfilled_by |-> 2, game_id |-> 2]>>
    /\ games \in {<<NewGame(p, 1, NULL), NewGame(q, NULL, 1)>> :
                     p \in Shuffles(1, 2), q \in Shuffles(3, 2)}
    /\ moves = <<>>
    /\ published = <<>>
    /\ subs = [s \in Subs |-> IdleSub]
    /\ reqs = [r \in Reqs |-> IdleReq]

NextGame ==
    \E r \in 1..MaxGameReqs :
        \/ StartMove(r, MaxGameReqs)
        \/ MoveCheck(r)
        \/ MoveEvaluate(r)
        \/ MovePublish(r)
        \/ DoMove(r)
        \/ StartForfeit(r, MaxGameReqs)
        \/ ForfeitCheck(r)
        \/ Forfeit(r)

\* moves and forfeits on two games under concurrent requests
SpecGame == InitGame /\ [][NextGame]_vars

\* a store holding one PENDING invitation, from user 1 to user 2, and one
\* PENDING challenge
InitLobby ==
    /\ deleted = {}
    /\ users = UserRows({})
    /\ invitations = <<[from_id |-> 1, to_id |-> 2, status |-> PENDING]>>
    /\ challenges \in {<<NewChallenge(u)>> : u \in Users}
    /\ games = <<>>
    /\ moves = <<>>
    /\ published = <<>>
    /\ subs = [s \in Subs |-> IdleSub]
    /\ reqs = [r \in Reqs |-> IdleReq]

NextLobby ==
    \E r \in 1..MaxLobbyReqs :
        \/ StartInvitationOp(r, MaxLobbyReqs)
        \/ AcceptInvitationCheck(r)
        \/ AcceptInvitationSelect(r)
        \/ AcceptInvitationFlush(r)
        \/ DeclineInvitationCheck(r)
        \/ CancelInvitationCheck(r)
        \/ InvitationUpdate(r)
        \/ StartChallengeOp(r, MaxLobbyReqs)
        \/ AcceptChallengeCheck(r)
        \/ AcceptChallengeSelect(r)
        \/ AcceptChallengeFlush(r)
        \/ CancelChallengeCheck(r)
        \/ CancelChallengeUpdate(r)

\* answers to a pending invitation and a pending challenge, side by side
SpecLobby == InitLobby /\ [][NextLobby]_vars

\* a store holding one PENDING invitation, from user 1 to user 2
InitAnswer ==
    /\ deleted = {}
    /\ users = UserRows({})
    /\ invitations = <<[from_id |-> 1, to_id |-> 2, status |-> PENDING]>>
    /\ challenges = <<>>
    /\ games = <<>>
    /\ moves = <<>>
    /\ published = <<>>
    /\ subs = [s \in Subs |-> IdleSub]
    /\ reqs = [r \in Reqs |-> IdleReq]

NextAnswer ==
    \E r \in 1..MaxLobbyReqs :
        \/ StartInvitationOp(r, MaxLobbyReqs)
        \/ AcceptInvitationCheck(r)
        \/ AcceptInvitationSelect(r)
        \/ AcceptInvitationFlush(r)
        \/ DeclineInvitationCheck(r)
        \/ CancelInvitationCheck(r)
        \/ InvitationUpdate(r)

\* answers to a pending invitation
SpecAnswer == InitAnswer /\ [][NextAnswer]_vars

\* a store holding the PENDING invitation from user 1 to user 2, the PENDING
\* challenge of user 2 and the game of the challenge of user 3 accepted by
\* user 2, in which user 2 may have deleted the account
InitAccount ==
    /\ deleted \in {{}, {2}}
    /\ users = UserRows(deleted)
    /\ invitations = <<[from_id |-> 1, to_id |-> 2, status |-> PENDING]>>
    /\ challenges = <<NewChallenge(2),
                      [requester_id |-> 3, status |-> ACCEPTED,
                       fulfilled_by |-> 2, game_id |-> 1]>>
    /\ games \in {<<NewGame(p, NULL, 2)>> : p \in Shuffles(3, 2)}
    /\ moves = <<>>
    /\ published = <<>>
    /\ subs = [s \in Subs |-> IdleSub]
    /\ reqs = [r \in Reqs |-> IdleReq]

NextAccount ==
    \E r \in 1..MaxAccountReqs :
        \/ StartDeleteUser(r, MaxAccountReqs)
        \/ DeleteUser(r)
        \/ StartInvitationOp(r, MaxAccountReqs)
        \/ AcceptInvitationCheck(r)
        \/ AcceptInvitationSelect(r)
        \/ AcceptInvitationFlush(r)
        \/ DeclineInvitationCheck(r)
        \/ CancelInvitationCheck(r)
        \/ InvitationUpdate(r)
        \/ StartChallengeOp(r, MaxAccountReqs)
        \/ AcceptChallengeCheck(r)
        \/ AcceptChallengeSelect(r)
        \/ AcceptChallengeFlush(r)
        \/ CancelChallengeCheck(r)
        \/ CancelChallengeUpdate(r)
        \/ StartMove(r, MaxAccountReqs)
        \/ MoveCheck(r)
        \/ MoveEvaluate(r)
        \/ MovePublish(r)
        \/ DoMove(r)
        \/ StartForfeit(r, MaxAccountReqs)
        \/ ForfeitCheck(r)
        \/ Forfeit(r)

\* requests on invitations, challenges and games while users delete their
\* accounts
SpecAccount == InitAccount /\ [][NextAccount]_vars

\* a store holding the game of an accepted invitation in its starting
\* position
InitStream ==
    /\ deleted = {}
    /\ users = UserRows({})
    /\ invitations = <<[from_id |-> 1, to_id |-> 2, status |-> ACCEPTED]>>
    /\ challenges = <<>>
    /\ games = <<NewGame(<<1, 2>>, 1, NULL)>>
    /\ moves = <<>>
    /\ published = <<>>
    /\ subs = [s \in Subs |-> IdleSub]
    /\ reqs = [r \in Reqs |-> IdleReq]

NextStream ==
    \/ \E r \in 1..MaxStreamReqs :
            \/ StartMove(r, MaxStreamReqs)
            \/ MoveCheck(r)
            \/ MoveEvaluate(r)
            \/ MovePublish(r)
            \/ DoMove(r)
    \/ \E s \in Subs :
            \/ GameUpdate(s)
            \/ StreamConnected(s)
            \/ StreamGetMessage(s)
            \/ ClientDisconnect(s)
            \/ StreamAbandon(s)
            \/ StreamIsDisconnected(s)
            \/ StreamUnsubscribe(s)
            \/ StreamClose(s)

\* moves on a game with update streams open on its channel or on another
SpecStream == InitStream /\ [][NextStream]_vars

\* the steps of the stream s that the event loop runs: none of them waits for
\* anything but a timeout of one second
StreamStep(s) ==
    \/ StreamConnected(s)
    \/ StreamGetMessage(s)
    \/ StreamIsDisconnected(s)
    \/ StreamUnsubscribe(s)
    \/ StreamClose(s)

NextStreamLive ==
    \/ \E r \in 1..MaxLiveReqs :
            \/ StartMove(r, MaxLiveReqs)
            \/ MoveCheck(r)
            \/ MoveEvaluate(r)
            \/ MovePublish(r)
            \/ DoMove(r)
    \/ \E s \in Subs :
            \/ GameUpdate(s)
            \/ ClientDisconnect(s)
            \/ StreamAbandon(s)
            \/ StreamStep(s)

\* update streams beside a move request, with every open stream's coroutine
\* scheduled again and again
SpecStreamLive ==
    /\ InitStream
    /\ [][NextStreamLive]_vars
    /\ \A s \in Subs : WF_vars(StreamStep(s))

NextEvaluator ==
    \E r \in 1..MaxEvalReqs :
        \/ StartMove(r, MaxEvalReqs)
        \/ MoveCheck(r)
        \/ EvaluatorAnswers(r)
        \/ MoveClassify(r)
        \/ MovePublish(r)
        \/ DoMove(r)

\* a move request on a game, with the evaluator's reply followed from the
\* http response to the answer of the request
SpecEvaluator == InitStream /\ [][NextEvaluator]_vars

NextPair ==
    \E r \in 1..MaxPairReqs :
        \/ StartCreateInvitation(r, MaxPairReqs)
        \/ CreateInvitationCheck(r)
        \/ CreateInvitation(r)
        \/ StartInvitationOp(r, MaxPairReqs)
        \/ AcceptInvitationCheck(r)
        \/ AcceptInvitationSelect(r)
        \/ AcceptInvitationFlush(r)
        \/ DeclineInvitationCheck(r)
        \/ CancelInvitationCheck(r)
        \/ InvitationUpdate(r)
        \/ StartChallengeOp(r, MaxPairReqs)
        \/ AcceptChallengeCheck(r)
        \/ AcceptChallengeSelect(r)
        \/ AcceptChallengeFlush(r)
        \/ CancelChallengeCheck(r)
        \/ CancelChallengeUpdate(r)

\* invitations sent and answered beside a pending challenge: every way a game
\* comes to be
SpecPair == InitChal /\ [][NextPair]_vars

(* ------------------------------ properties ---------------------------- *)
GamesOfInvitation(i) == {g \in DOMAIN games : games[g].invitation_id = i}
GamesOfChallenge(c) == {g \in DOMAIN games : games[g].challenge_id = c}
MovesOf(g) == SelectSeq(moves, LAMBDA m : m.game_id = g)
Players(g) == {games[g].white, games[g].black}
OtherPlayer(g, u) == IF u = games[g].white THEN games[g].black ELSE games[g].white
Done(r, op) == reqs[r].op = op /\ reqs[r].pc = "done"

PublishedOn(g) == SelectSeq(published, LAMBDA m : m.channel = g)

\* C1: once an invitation's status is ACCEPTED, DECLINED or CANCELLED, no step
\* of any accept, decline or cancel request changes it.
C1_StatusTerminal ==
    [][\A i \in DOMAIN invitations :
          invitations[i].status # PENDING
              => invitations'[i].status = invitations[i].status]_vars

\* C2: when an accept by the recipient and a cancel by the sender, and no other
\* accept, decline or cancel, have both run against the same existing
\* invitation, exactly one got 200 and the other an
\* error, and the invitation is ACCEPTED with one game or CANCELLED with none.
C2_AcceptCancelExactlyOne ==
    \A a, c \in 1..MaxInvReqs :
        ( /\ Done(a, "accept_invitation") /\ Done(c, "cancel_invitation")
          /\ reqs[a].id = reqs[c].id
          /\ reqs[a].id \in DOMAIN invitations
          /\ reqs[a].caller = invitations[reqs[a].id].to_id
          /\ reqs[c].caller = invitations[reqs[c].id].from_id
          /\ reqs[a].resp \notin {401, 404} /\ reqs[c].resp \notin {401, 404}
          /\ \A q \in 1..MaxInvReqs \ {a, c} :
                 ~(reqs[q].op \in {"accept_invitation", "decline_invitation",
                                   "cancel_invitation"}
                   /\ reqs[q].id = reqs[a].id) )
        => LET i == reqs[a].id IN
           \/ /\ reqs[a].resp = 200 /\ reqs[c].resp \in {400, 409, 500}
              /\ invitations[i].status = ACCEPTED
              /\ Cardinality(GamesOfInvitation(i)) = 1
           \/ /\ reqs[c].resp = 200 /\ reqs[a].resp \in {400, 409, 500}
              /\ invitations[i].status = CANCELLED
              /\ GamesOfInvitation(i) = {}

\* C3: an invitation is ACCEPTED iff exactly one game references it, and an
\* invitation in any other status is referenced by no game.
C3_AcceptedIffOneGame ==
    \A i \in DOMAIN invitations :
        /\ invitations[i].status = ACCEPTED
               <=> Cardinality(GamesOfInvitation(i)) = 1
        /\ invitations[i].status # ACCEPTED => GamesOfInvitation(i) = {}

\* C4: when two different users, neither the requester, have both run
\* accept_challenge on the same PENDING challenge and no other request accepts
\* or cancels it, exactly
\* one got a game and the other "not available"; one game references the
\* challenge, and fulfilled_by and game_id name that caller and that game.
C4_OneAcceptWins ==
    \A a, b \in 1..MaxChalReqs :
        ( /\ a # b
          /\ Done(a, "accept_challenge") /\ Done(b, "accept_challenge")
          /\ reqs[a].id = reqs[b].id
          /\ reqs[a].id \in DOMAIN challenges
          /\ reqs[a].caller # reqs[b].caller
          /\ challenges[reqs[a].id].requester_id \notin {reqs[a].caller, reqs[b].caller}
          /\ \A q \in 1..MaxChalReqs \ {a, b} :
                 ~(reqs[q].op \in {"accept_challenge", "cancel_challenge"}
                   /\ reqs[q].id = reqs[a].id) )
        => LET c == reqs[a].id IN
           \E w \in {a, b} :
              /\ reqs[w].resp = 202
              /\ \A l \in {a, b} \ {w} : reqs[l].resp = 404
              /\ GamesOfChallenge(c) = {reqs[w].loc}
              /\ challenges[c].fulfilled_by = reqs[w].caller
              /\ challenges[c].game_id = reqs[w].loc

\* C5: an applied move by the caller leaves whomst at the other player; and a
\* move request of a player checked while whomst is the other player is answered
\* 400 "not the turn", with the games and moves tables as they were.
C5_MoveAlternation ==
    [][\A r \in 1..MaxGameReqs :
          /\ (At(r, "move", "do_move") /\ reqs'[r].pc = "done")
                => /\ games'[reqs[r].id].whomst = OtherPlayer(reqs[r].id, reqs[r].caller)
                   /\ games'[reqs[r].id].whomst # reqs[r].caller
          /\ ( /\ At(r, "move", "check") /\ reqs'[r].pc # "check"
               /\ reqs[r].id \in DOMAIN games
               /\ reqs[r].caller \in Players(reqs[r].id)
               /\ games[reqs[r].id].whomst # reqs[r].caller )
                => /\ reqs'[r].pc = "done"
                   /\ reqs'[r].resp = 400
                   /\ reqs'[r].loc = "it is not the turn of user"
                   /\ games' = games
                   /\ moves' = moves]_vars

\* C5 witness: the first request applied a move of a player, and that player's
\* second request was then refused for the turn with one Move row in the table.
C5_Witness ==
    /\ Done(1, "move") /\ reqs[1].resp = 200
    /\ Done(2, "move") /\ reqs[2].resp = 400
    /\ reqs[2].loc = "it is not the turn of user"
    /\ reqs[1].caller = reqs[2].caller
    /\ reqs[1].id = reqs[2].id
    /\ Len(moves) = 1
    /\ games[reqs[1].id].whomst = OtherPlayer(reqs[1].id, reqs[1].caller)

\* C6: any two consecutive Move rows of a game have different acting users.
C6_NoTwoInARow ==
    \A g \in DOMAIN games :
        \A k \in 1..(Len(MovesOf(g)) - 1) :
            MovesOf(g)[k].user_id # MovesOf(g)[k + 1].user_id

\* C7: for every game, is_active is false iff result is set, and a winner that
\* is set is the game's white or black player.
C7_ResultConsistent ==
    \A g \in DOMAIN games :
        /\ games[g].is_active = FALSE <=> games[g].result # NoResult
        /\ games[g].winner # NULL => games[g].winner \in Players(g)

\* C7 witness: a game with a Move row, ended with a winner.
C7_Witness ==
    \E g \in DOMAIN games :
        /\ games[g].is_active = FALSE
        /\ games[g].result \in {"CHECKMATE", "RESIGNATION"}
        /\ games[g].winner \in Players(g)
        /\ MovesOf(g) # <<>>

C9_NonTerminalMove ==
    [][\A r \in 1..MaxGameReqs :
          ( /\ At(r, "move", "do_move") /\ reqs'[r].pc = "done"
            /\ reqs[r].loc.response.status \in {"MOVEOK", "CHECK"} )
          => LET id == reqs[r].id
                 response == reqs[r].loc.response
             IN  /\ Len(moves') = Len(moves) + 1
                 /\ SubSeq(moves', 1, Len(moves)) = moves
                 /\ moves'[Len(moves')].game_id = id
                 /\ moves'[Len(moves')].user_id = reqs[r].caller
                 /\ moves'[Len(moves')].fen = response.fen
                 /\ games'[id].fen = response.fen
                 /\ JsonLoads(games'[id].states) = response.states
                 /\ games'[id].whomst = OtherPlayer(id, reqs[r].caller)
                 /\ games'[id].is_active = TRUE
                 /\ games'[id].result = NoResult
                 /\ games'[id].winner = NULL]_vars

\* C9 witness: one move applied, the game still active at the new position.
C9_Witness ==
    /\ Done(1, "move") /\ reqs[1].resp = 200
    /\ Len(moves) = 1
    /\ games[reqs[1].id].is_active
    /\ games[reqs[1].id].fen = moves[1].fen
    /\ games[reqs[1].id].fen # StartFen
    /\ games[reqs[1].id].whomst # reqs[1].caller

\* C10: applying a move whose evaluator status is terminal sets is_active to
\* false and result to that status; winner is the mover for CHECKMATE and null
\* for the drawn outcomes.
C10_TerminalMove ==
    [][\A r \in 1..MaxGameReqs :
          ( /\ At(r, "move", "do_move") /\ reqs'[r].pc = "done"
            /\ reqs[r].loc.response.status \in
                   {"CHECKMATE", "STALEMATE", "INSUFFICIENTMATERIAL",
                    "THREEFOLDREPETITION", "FIFTYMOVERULE"} )
          => LET id == reqs[r].id
                 status == reqs[r].loc.response.status
             IN  /\ games'[id].is_active = FALSE
                 /\ games'[id].result = status
                 /\ games'[id].winner =
                        IF status = "CHECKMATE" THEN reqs[r].caller ELSE NULL]_vars

\* C10 witness: a game ended by a checkmating move, won by its mover.
C10_Witness ==
    \E g \in DOMAIN games :
        /\ games[g].result = "CHECKMATE"
        /\ games[g].is_active = FALSE
        /\ MovesOf(g) # <<>>
        /\ games[g].winner = MovesOf(g)[Len(MovesOf(g))].user_id

C14_NewGameFields ==
    [][Len(games') # Len(games) =>
          /\ Len(games') = Len(games) + 1
          /\ SubSeq(games', 1, Len(games)) = games
          /\ LET g == games'[Len(games')] IN
             /\ \E r \in Reqs :
                   /\ reqs[r].pc = "flush" /\ reqs'[r].pc = "done"
                   /\ \/ /\ reqs[r].op = "accept_invitation"
                         /\ g.invitation_id = reqs[r].id
                         /\ reqs[r].caller = invitations[reqs[r].id].to_id
                         /\ {g.white, g.black} =
                                {invitations[reqs[r].id].from_id,
                                 invitations[reqs[r].id].to_id}
                      \/ /\ reqs[r].op = "accept_challenge"
                         /\ g.challenge_id = reqs[r].id
                         /\ reqs[r].caller # challenges[reqs[r].id].requester_id
                         /\ {g.white, g.black} =
                                {challenges[reqs[r].id].requester_id,
                                 reqs[r].caller}
             /\ g.white # g.black
             /\ g.whomst = g.white
             /\ g.is_active = TRUE
             /\ g.result = NoResult
             /\ g.winner = NULL
             /\ g.fen = StartFen
             /\ JsonLoads(g.states) = EmptyStates]_vars

\* C14 witness: the invitation and the challenge were both accepted; the game
\* of the invitation has the recipient as white, the game of the challenge has
\* the requester as white, and each is to be opened by its white.
C14_Witness ==
    \E g, h \in DOMAIN games :
        /\ games[g].invitation_id = 1
        /\ games[g].white = invitations[1].to_id
        /\ games[g].black = invitations[1].from_id
        /\ games[g].whomst = invitations[1].to_id
        /\ games[h].challenge_id = 1
        /\ games[h].white = challenges[1].requester_id
        /\ games[h].black = challenges[1].fulfilled_by
        /\ games[h].whomst = challenges[1].requester_id

C16_OnlyRecipientOrSender ==
    [][\A r \in Reqs :
          ( /\ reqs[r].pc = "check" /\ reqs'[r].pc # "check"
            /\ reqs[r].id \in DOMAIN invitations
            /\ \/ /\ reqs[r].op \in {"accept_invitation", "decline_invitation"}
                  /\ reqs[r].caller # invitations[reqs[r].id].to_id
               \/ /\ reqs[r].op = "cancel_invitation"
                  /\ reqs[r].caller # invitations[reqs[r].id].from_id )
          => /\ reqs'[r].pc = "done"
             /\ reqs'[r].resp = 403
             /\ invitations' = invitations
             /\ games' = games]_vars

\* C16 witness: the sender tried to accept the invitation and the recipient to
\* cancel it; both were answered 403 and the invitation is PENDING, gameless.
C16_Witness ==
    \E a, c \in Reqs : \E i \in DOMAIN invitations :
        /\ Done(a, "accept_invitation") /\ reqs[a].id = i
        /\ reqs[a].caller = invitations[i].from_id /\ reqs[a].resp = 403
        /\ Done(c, "cancel_invitation") /\ reqs[c].id = i
        /\ reqs[c].caller = invitations[i].to_id /\ reqs[c].resp = 403
        /\ invitations[i].status = PENDING
        /\ games = <<>>

\* C17: an accept request creates its game only while the invitation's sender,
\* or the challenge's requester, is not marked deleted; and an accept by the
\* recipient of a PENDING invitation whose sender is marked deleted, or by
\* another user of a PENDING challenge whose requester is marked deleted, is
\* answered 404 and leaves the invitations, challenges and games tables as
\* they were.
C17_NoGameWithDeletedCounterpart ==
    [][\A r \in Reqs :
          /\ ( /\ reqs[r].op = "accept_invitation"
               /\ reqs[r].pc = "flush" /\ reqs'[r].pc = "done" )
                => invitations[reqs[r].id].from_id \notin deleted
          /\ ( /\ reqs[r].op = "accept_challenge"
               /\ reqs[r].pc = "flush" /\ reqs'[r].pc = "done" )
                => challenges[reqs[r].id].requester_id \notin deleted
          /\ ( /\ reqs[r].pc = "check" /\ reqs'[r].pc # "check"
               /\ \/ /\ reqs[r].op = "accept_invitation"
                     /\ reqs[r].id \in DOMAIN invitations
                     /\ invitations[reqs[r].id].status = PENDING
                     /\ invitations[reqs[r].id].to_id = reqs[r].caller
                     /\ invitations[reqs[r].id].from_id \in deleted
                  \/ /\ reqs[r].op = "accept_challenge"
                     /\ reqs[r].id \in DOMAIN challenges
                     /\ challenges[reqs[r].id].status = PENDING
                     /\ challenges[reqs[r].id].requester_id # reqs[r].caller
                     /\ challenges[reqs[r].id].requester_id \in deleted )
                => /\ reqs'[r].pc = "done" /\ reqs'[r].resp = 404
                   /\ invitations' = invitations
                   /\ challenges' = challenges
                   /\ games' = games]_vars

\* C18: the update of a cancel_invitation, decline_invitation or
\* cancel_challenge request that finds its row PENDING sets the status to
\* CANCELLED or DECLINED and is answered 200; every step such a request of the
\* entitled caller takes on a row that is no longer PENDING ends it with an
\* error and leaves the invitations, challenges and games tables as they were.
C18_TerminalNotRepeatable ==
    [][\A r \in Reqs :
          LET id == reqs[r].id
              op == reqs[r].op
              moved == reqs'[r].pc # reqs[r].pc
          IN
          /\ ( /\ op \in {"cancel_invitation", "decline_invitation"}
               /\ reqs[r].pc = "update" /\ moved
               /\ invitations[id].status = PENDING )
                => /\ reqs'[r].pc = "done" /\ reqs'[r].resp = 200
                   /\ invitations'[id].status =
                          IF op = "cancel_invitation" THEN CANCELLED ELSE DECLINED
                   /\ games' = games
          /\ ( /\ op = "cancel_challenge"
               /\ reqs[r].pc = "update" /\ moved
               /\ challenges[id].status = PENDING )
                => /\ reqs'[r].pc = "done" /\ reqs'[r].resp = 200
                   /\ challenges'[id].status = CANCELLED
                   /\ games' = games
          /\ ( /\ reqs[r].pc \in {"check", "update"} /\ moved
               /\ \/ /\ op = "cancel_invitation"
                     /\ id \in DOMAIN invitations
                     /\ invitations[id].status # PENDING
                     /\ reqs[r].caller = invitations[id].from_id
                  \/ /\ op = "decline_invitation"
                     /\ id \in DOMAIN invitations
                     /\ invitations[id].status # PENDING
                     /\ reqs[r].caller = invitations[id].to_id
                  \/ /\ op = "cancel_challenge"
                     /\ id \in DOMAIN challenges
                     /\ challenges[id].status # PENDING
                     /\ reqs[r].caller = challenges[id].requester_id )
                => /\ reqs'[r].pc = "done"
                   /\ reqs'[r].resp \in {400, 404, 500}
                   /\ invitations' = invitations
                   /\ challenges' = challenges
                   /\ games' = games]_vars

\* C18 witness: the sender cancelled the invitation twice, answered 200 and
\* then 400; the invitation is CANCELLED and there is no game.
C18_Witness ==
    \E a, b \in Reqs :
        /\ Done(a, "cancel_invitation") /\ reqs[a].resp = 200
        /\ Done(b, "cancel_invitation") /\ reqs[b].resp = 400
        /\ reqs[a].id = reqs[b].id
        /\ reqs[a].caller = reqs[b].caller
        /\ invitations[reqs[a].id].status = CANCELLED
        /\ games = <<>>

C20_OnePendingChallenge ==
    /\ [](\A u \in Users : Cardinality(PendingChallengesOf(u)) <= 1)
    /\ [][\A r \in 1..MaxChalReqs :
            /\ (At(r, "create_challenge", "check") /\ reqs'[r].pc # "check")
                  => /\ challenges' = challenges
                     /\ IF PendingChallengesOf(reqs[r].caller) # {}
                        THEN reqs'[r].pc = "done" /\ reqs'[r].resp = 409
                        ELSE reqs'[r].pc = "insert"
            /\ (At(r, "create_challenge", "insert") /\ reqs'[r].pc # "insert")
                  => /\ reqs'[r].pc = "done" /\ reqs'[r].resp = 201
                     /\ challenges' =
                            Append(challenges, NewChallenge(reqs[r].caller))]_vars

C24_SoftDeleteOnce ==
    /\ [](/\ DOMAIN users = Users
          /\ \A u \in deleted :
                users[u].email = NULL /\ users[u].password = NoPassword
          /\ \A u \in Users :
                Cardinality({r \in Reqs : /\ Done(r, "delete_user")
                                          /\ reqs[r].caller = u
                                          /\ reqs[r].resp = 204
                                          /\ reqs[r].loc = TRUE}) <= 1)
    /\ [][/\ deleted \subseteq deleted'
          /\ \A r \in Reqs :
                /\ (At(r, "delete_user", "check") /\ reqs'[r].pc = "done")
                      => /\ reqs'[r].loc = (reqs[r].caller \notin deleted)
                         /\ reqs[r].caller \in deleted'
                /\ ( /\ reqs[r].pc = "idle" /\ reqs'[r].op = "login"
                     /\ reqs'[r].id \in deleted )
                      => /\ reqs'[r].resp = 401
                         /\ reqs'[r].loc.jwt = NULL]_vars

\* C24 witness: two delete_user calls of one user returned True and then
\* False, and a login with that user's name and own password was answered 401.
C24_Witness ==
    \E a, b, l \in Reqs :
        /\ Done(a, "delete_user") /\ reqs[a].resp = 204 /\ reqs[a].loc = TRUE
        /\ Done(b, "delete_user") /\ reqs[b].resp = 204 /\ reqs[b].loc = FALSE
        /\ reqs[a].caller = reqs[b].caller
        /\ Done(l, "login") /\ reqs[l].id = reqs[a].caller
        /\ reqs[l].loc.password = reqs[l].id
        /\ reqs[l].resp = 401
        /\ users[reqs[a].caller] = [email |-> NULL, password |-> NoPassword]

\* C25: a request that arrives with the token of a user who is marked deleted
\* is answered 401 in the step of its arrival, which leaves the invitations,
\* challenges, games and moves tables and the published messages as they
\* were; a request answered 401 takes no further step; and a step changes one
\* of those only as a step of a request that passed get_credentials.
C25_DeletedUserUnauthorized ==
    [][LET Store == <<invitations, challenges, games, moves, published, subs>> IN
       /\ \A r \in Reqs :
            /\ ( /\ reqs[r].pc = "idle" /\ reqs'[r].pc # "idle"
                 /\ reqs'[r].caller \in deleted )
                  => /\ reqs'[r].pc = "done"
                     /\ reqs'[r].resp = 401
                     /\ Store' = Store
            /\ (reqs[r].pc = "done" /\ reqs[r].resp = 401)
                  => reqs'[r] = reqs[r]
       /\ Store' # Store
            => \E r \in Reqs : /\ reqs[r].pc \notin {"idle", "done"}
                                /\ reqs'[r].pc # reqs[r].pc
                                /\ reqs'[r].resp # 401]_vars

\* C25 witness: the recipient of the invitation, who is a player of the game,
\* is marked deleted; the user's accept of the invitation and the user's move
\* were both answered 401; the invitation is PENDING and the game untouched.
C25_Witness ==
    \E a, m \in Reqs :
        /\ Done(a, "accept_invitation") /\ reqs[a].resp = 401
        /\ reqs[a].caller \in deleted
        /\ invitations[reqs[a].id].to_id = reqs[a].caller
        /\ invitations[reqs[a].id].status = PENDING
        /\ Done(m, "move") /\ reqs[m].resp = 401
        /\ reqs[m].caller = reqs[a].caller
        /\ reqs[m].id \in DOMAIN games
        /\ games[reqs[m].id].whomst = reqs[m].caller
        /\ moves = <<>>
        /\ published = <<>>
        /\ Len(games) = 1

\* C26: in every state, the events published on the channel of a game are at
\* most as many as the game's committed Move rows, and the latest of them
\* carries the position of a committed Move row: an event is published only
\* once the transaction of its move has committed, one per committed move.
C26_PublishedOnCommit ==
    \A g \in DOMAIN games :
        /\ Len(PublishedOn(g)) <= Len(MovesOf(g))
        /\ PublishedOn(g) # <<>>
              => \E k \in 1..Len(MovesOf(g)) :
                    MovesOf(g)[k].fen =
                        JsonLoads(PublishedOn(g)[Len(PublishedOn(g))].data).fen

\* C27: the step of a move request that follows a successful evaluator call,
\* the publication of its event, never ends the request with an error: the
\* request goes on to commit the move, failed publication or not.
C27_PublishBestEffort ==
    [][\A r \in Reqs :
          (At(r, "move", "publish") /\ reqs'[r].pc # "publish")
          => /\ reqs'[r].pc = "do_move"
             /\ reqs'[r].resp = NULL]_vars

\* C28: what a stream has sent to its client is an initial part of the events
\* published for its game since it subscribed, in the order of publication and
\* each once (so nothing of another game and nothing older); as long as the
\* subscription stands, the events not sent yet wait in order to be sent.
C28_StreamInOrder ==
    \A s \in Subs :
        /\ Len(subs[s].sent) <= Len(PublishedSince(s))
        /\ subs[s].sent = SubSeq(PublishedSince(s), 1, Len(subs[s].sent))
        /\ subs[s].subscribed
           => subs[s].sent \o subs[s].queue = PublishedSince(s)

\* two different events are out for one game; a stream that subscribed to the
\* game after the first was published has sent the second only
C28_Witness ==
    \E s \in Subs :
        /\ Len(published) = 2
        /\ published[1].data # published[2].data
        /\ subs[s].since = 1
        /\ subs[s].game_id = published[2].channel
        /\ subs[s].sent = <<published[2].data>>

\* C29: once the client of an update stream is gone, the stream's loop ends
\* and its subscription is unsubscribed and closed; a closed stream holds no
\* subscription.
C29_StreamReleased ==
    \A s \in Subs :
        /\ [](subs[s].pc = "closed" => ~subs[s].subscribed)
        /\ subs[s].disconnected
           ~> (subs[s].pc = "closed" /\ ~subs[s].subscribed)

\* C30: no step changes the white or the black player of a game that exists,
\* and the whomst of every game is its white or its black player.
C30_PlayersImmutable ==
    /\ [](\A g \in DOMAIN games : games[g].whomst \in Players(g))
    /\ [][\A g \in DOMAIN games :
              /\ games'[g].white = games[g].white
              /\ games'[g].black = games[g].black]_vars

\* a game that was moved on and then given up, with the turn at one of its
\* two players
C30_Witness ==
    \E g \in DOMAIN games :
        /\ \E k \in DOMAIN moves : moves[k].game_id = g
        /\ games[g].fen # StartFen
        /\ games[g].result = "RESIGNATION"
        /\ games[g].whomst \in Players(g)
        /\ Players(g) = {2, 3}

\* C31: every step leaves the Move rows that exist as they are, in their
\* places: the moves table only grows, at its end.
C31_MovesAppendOnly ==
    [][/\ Len(moves') >= Len(moves)
       /\ SubSeq(moves', 1, Len(moves)) = moves]_vars

\* the Move row of a move is still there, as it was written, after the game
\* was given up
C31_Witness ==
    \E k \in DOMAIN moves :
        /\ moves[k].game_id \in DOMAIN games
        /\ moves[k].user_id \in Players(moves[k].game_id)
        /\ moves[k].fen = games[moves[k].game_id].fen
        /\ ~games[moves[k].game_id].is_active
        /\ games[moves[k].game_id].winner = moves[k].user_id
        /\ games[moves[k].game_id].result = "RESIGNATION"

\* C32: when the evaluator's reply is classified, a 200 lets the request go on
\* with the evaluator's answer; a 4xx with one of the four known messages
\* answers the request 400; every other reply answers it 500.
C32_EvaluatorClassification ==
    [][\A r \in Reqs :
          (At(r, "move", "classify") /\ reqs'[r].pc # "classify")
          => LET reply == reqs[r].loc.reply IN
             IF reply.status_code = 200
             THEN /\ reqs'[r].pc = "publish"
                  /\ reqs'[r].resp = NULL
                  /\ reqs'[r].loc.response = reply.body
             ELSE /\ reqs'[r].pc = "done"
                  /\ IF /\ reply.status_code \in 400..499
                        /\ reply.body.message \in ClientRejections
                     THEN reqs'[r].resp = 400
                     ELSE reqs'[r].resp = 500]_vars

\* a move request was answered 400 with the message of the evaluator's 4xx
\* reply, one of the known ones, and no Move row was written
C32_Witness ==
    \E r \in Reqs :
        /\ Done(r, "move")
        /\ reqs[r].resp = 400
        /\ reqs[r].loc = "the game is already over"
        /\ moves = <<>>

\* C33: the checking step of a move request answers 404 when the game does not
\* exist; else 403 when the caller is neither white nor black; else 400 when
\* the caller is not whomst; and only else goes on to the move evaluator.  The
\* step changes no table and the evaluator is reached by no other step.
C33_MoveCheckOrder ==
    [][\A r \in Reqs :
          /\ (At(r, "move", "check") /\ reqs'[r].pc # "check")
             => /\ IF reqs[r].id \notin DOMAIN games
                   THEN reqs'[r].pc = "done" /\ reqs'[r].resp = 404
                   ELSE IF reqs[r].caller \notin Players(reqs[r].id)
                   THEN reqs'[r].pc = "done" /\ reqs'[r].resp = 403
                   ELSE IF reqs[r].caller # games[reqs[r].id].whomst
                   THEN reqs'[r].pc = "done" /\ reqs'[r].resp = 400
                   ELSE reqs'[r].pc = "evaluate" /\ reqs'[r].resp = NULL
                /\ games' = games /\ moves' = moves /\ published' = published
          /\ (reqs[r].pc # "evaluate" /\ reqs'[r].pc = "evaluate")
             => /\ At(r, "move", "check")
                /\ reqs[r].id \in DOMAIN games
                /\ reqs[r].caller \in Players(reqs[r].id)
                /\ reqs[r].caller = games[reqs[r].id].whomst]_vars

\* a user who plays in no game, and so holds no turn either, asked for a move
\* on an existing game and was answered 403, not 400
C33_Witness ==
    \E r \in Reqs :
        /\ Done(r, "move")
        /\ reqs[r].resp = 403
        /\ reqs[r].id \in DOMAIN games
        /\ reqs[r].caller \notin Players(reqs[r].id)
        /\ reqs[r].caller # games[reqs[r].id].whomst
        /\ moves = <<>>

\* the operations that answer an invitation or a challenge
TransitionOps ==
    {"accept_invitation", "decline_invitation", "cancel_invitation",
     "accept_challenge", "cancel_challenge"}

\* C34: a request to accept, decline or cancel writes nothing before its last
\* step, and when that step answers an error (400 and above) it writes nothing
\* either: the invitations, challenges, games and moves tables are as before.
C34_RejectedLeavesNothing ==
    [][\A r \in Reqs :
          ( /\ reqs'[r] # reqs[r]
            /\ reqs'[r].op \in TransitionOps
            /\ (reqs'[r].pc # "done" \/ reqs'[r].resp >= 400) )
          => /\ invitations' = invitations
             /\ challenges' = challenges
             /\ games' = games
             /\ moves' = moves]_vars

\* the recipient's accept of an invitation lost against the sender's cancel
\* after both had passed their checks: it was answered 500, the invitation is
\* CANCELLED and there is no game
C34_Witness ==
    \E a, b \in Reqs :
        /\ Done(a, "accept_invitation") /\ reqs[a].resp = 500
        /\ Done(b, "cancel_invitation") /\ reqs[b].resp = 200
        /\ reqs[a].id = reqs[b].id
        /\ invitations[reqs[a].id].to_id = reqs[a].caller
        /\ invitations[reqs[a].id].status = CANCELLED
        /\ games = <<>>

C37_TurnParity ==
    \A g \in DOMAIN games :
        games[g].whomst =
            IF Len(MovesOf(g)) % 2 = 0 THEN games[g].white ELSE games[g].black

=============================================================================
